---- MODULE Spec2Model ----
(***************************************************************************)
(* Model of util/network-devp2p/src/node_table.rs: the peer registry       *)
(* (NodeTable), its ranking, its IP filter, its nodes.json persistence and *)
(* the RLP form of an endpoint.                                            *)
(***************************************************************************)
EXTENDS Integers, Sequences, FiniteSets, TLC

(***************************************************************************)
(* Bounds of the model.                                                    *)
(***************************************************************************)
\* Largest value the model lets attempts reach (u32 in the source).
MaxAttempts == 2
\* Largest value the model lets failures reach (u32 in the source).
MaxFailures == 1
\* Hex digits of a NodeId in the model (H512 has 128).
IdHexLen == 2

\* const MAX_NODES: usize = 1024.  The model keeps the truncation of save()
\* but scales the limit down so that a table of three records exceeds it.
MAX_NODES == 2
\* const DEFAULT_FAILURE_PERCENTAGE: usize = 50
DEFAULT_FAILURE_PERCENTAGE == 50
\* Largest u16, the width of a port.
U16Max == 65535

(***************************************************************************)
(* Values.                                                                 *)
(***************************************************************************)
\* pub type NodeId = H512, scaled to IdHexLen hex digits: a number below
\* 16^IdHexLen.
NodeIds == {169, 185}

\* IP addresses used by the model (both taken from the tests).
PrivateIp == "10.0.0.1"
PublicIp == "123.99.55.44"
Ips == {PrivateIp, PublicIp}

\* Networks of the custom allow and block lists.
Nets == {"10.0.0.0/8", "123.99.0.0/16"}

\* ip_utils: is_within, is_usable_private, is_usable_public, as given
\* predicates over the addresses of the model.
IsWithin(ip, net) ==
    \/ ip = "10.0.0.1" /\ net = "10.0.0.0/8"
    \/ ip = "123.99.55.44" /\ net = "123.99.0.0/16"
    \/ ip = "1.0.0.55" /\ net = "1.0.0.0/8"
    \/ ip = "fc00::" /\ net = "fc00::/8"

IsUsablePrivate(ip) == ip \in {"10.0.0.1", "fc00::", "fd00::"}

IsUsablePublic(ip) == ip \in {"123.99.55.44", "1.0.0.55"}

\* struct NodeEndpoint { address: SocketAddr, udp_port: u16 }; the address
\* is an IP with the TCP port.
NodeEndpoint(ip, port, udp) == [ip |-> ip, port |-> port, udp_port |-> udp]

\* Endpoints the model draws from: one whose UDP port is its TCP port and
\* one whose UDP port differs.
Endpoints ==
    { NodeEndpoint(PrivateIp, 30303, 30303),
      NodeEndpoint(PublicIp, 30303, 30304) }

\* enum PeerType { _Required, Optional }
PeerTypes == {"Required", "Optional"}

\* struct IpFilter { predefined: AllowIP, custom_allow, custom_block }
AllowIP == {"All", "Private", "Public", "None"}

IpFilters ==
    [predefined : AllowIP, custom_allow : SUBSET Nets, custom_block : SUBSET Nets]

\* IpFilter::default(): allow all, no custom lists.
DefaultFilter ==
    [predefined |-> "All", custom_allow |-> {}, custom_block |-> {}]

(***************************************************************************)
(* NodeEndpoint::is_allowed                                                *)
(***************************************************************************)
is_allowed_by_predefined(endpoint, predefined) ==
    CASE predefined = "All" -> TRUE
      [] predefined = "Private" -> IsUsablePrivate(endpoint.ip)
      [] predefined = "Public" -> IsUsablePublic(endpoint.ip)
      [] predefined = "None" -> FALSE

\* is_allowed with the parentheses around the two allow conditions missing:
\* the block list is tested for the custom allow list only.
is_allowed_block_binds_to_custom_allow(endpoint, filter) ==
    \/ is_allowed_by_predefined(endpoint, filter.predefined)
    \/ /\ \E ipnet \in filter.custom_allow : IsWithin(endpoint.ip, ipnet)
       /\ ~ \E ipnet \in filter.custom_block : IsWithin(endpoint.ip, ipnet)

is_allowed(endpoint, filter) ==
    /\ \/ is_allowed_by_predefined(endpoint, filter.predefined)
       \/ \E ipnet \in filter.custom_allow : IsWithin(endpoint.ip, ipnet)
    /\ ~ \E ipnet \in filter.custom_block : IsWithin(endpoint.ip, ipnet)

(***************************************************************************)
(* Node                                                                    *)
(***************************************************************************)
Node(id, endpoint, peer_type, attempts, failures) ==
    [id |-> id, endpoint |-> endpoint, peer_type |-> peer_type,
     attempts |-> attempts, failures |-> failures]

\* Node::new
NodeNew(id, endpoint) == Node(id, endpoint, "Optional", 0, 0)

\* Node::failure_percentage on the counters of the table specifications.
\* The counters are u32; within MaxAttempts, MaxFailures and MaxNoted the
\* product failures * 100 stays far below 2^32.  failure_percentage_u32 is
\* the function on the full width.
failure_percentage(n) ==
    IF n.attempts = 0
    THEN DEFAULT_FAILURE_PERCENTAGE
    ELSE (((n.failures * 100) \div n.attempts) \div 5) * 5

(***************************************************************************)
(* NodeTable::ordered_entries: the comparator and the stable sort.         *)
(***************************************************************************)
\* Ord::cmp on integers: -1 Less, 0 Equal, 1 Greater.
IntCmp(x, y) == IF x < y THEN -1 ELSE IF x > y THEN 1 ELSE 0

\* Ordering::then_with
ThenWith(first, second) == IF first # 0 THEN first ELSE second

\* The closure with the attempts compared in ascending order.
NodeCmpAttemptsAscending(a, b) ==
    ThenWith(ThenWith(IntCmp(failure_percentage(a), failure_percentage(b)),
                      IntCmp(a.failures, b.failures)),
             IntCmp(a.attempts, b.attempts))

\* The closure given to sort_by.
NodeCmp(a, b) ==
    ThenWith(ThenWith(IntCmp(failure_percentage(a), failure_percentage(b)),
                      IntCmp(a.failures, b.failures)),
             IntCmp(b.attempts, a.attempts))

\* Where a stable sort puts x among the already sorted s: after every
\* element that is not greater than x.
RECURSIVE InsertSorted(_, _)
InsertSorted(x, s) ==
    IF s = <<>> THEN <<x>>
    ELSE IF NodeCmp(x, Head(s)) < 0 THEN <<x>> \o s
    ELSE <<Head(s)>> \o InsertSorted(x, Tail(s))

\* slice::sort_by: a stable sort.
RECURSIVE SortBy(_)
SortBy(s) ==
    IF s = <<>> THEN <<>>
    ELSE InsertSorted(s[Len(s)], SortBy(SubSeq(s, 1, Len(s) - 1)))

\* The orders in which a HashMap with keys S can be iterated: any.
RECURSIVE IterOrders(_)
IterOrders(S) ==
    IF S = {} THEN {<<>>}
    ELSE UNION {{<<x>> \o p : p \in IterOrders(S \ {x})} : x \in S}

\* ordered_entries without the filter on useless_nodes.
ordered_entries_keeps_useless(ns, useless, it) ==
    SortBy([i \in 1..Len(it) |-> ns[it[i]]])

\* ordered_entries, for the table (ns, useless) iterated in the order it.
ordered_entries(ns, useless, it) ==
    LET refs == [i \in 1..Len(it) |-> ns[it[i]]]
        NotUseless(n) == n.id \notin useless
    IN  SortBy(SelectSeq(refs, NotUseless))

\* nodes() without the filter on the endpoint.
allowed_ids_any_endpoint(oe, filter) == [i \in 1..Len(oe) |-> oe[i].id]

\* NodeTable::nodes, from the ordered entries on: the filter on the
\* endpoint and the map to the id.
allowed_ids(oe, filter) ==
    LET Allowed(n) == is_allowed(n.endpoint, filter)
        kept == SelectSeq(oe, Allowed)
    IN  [i \in 1..Len(kept) |-> kept[i].id]

\* NodeTable::nodes
nodes_of(ns, useless, filter, it) ==
    allowed_ids(ordered_entries(ns, useless, it), filter)

\* NodeTable::entries, from the ordered entries on: the map to NodeEntry.
node_entries(oe) ==
    [i \in 1..Len(oe) |-> [endpoint |-> oe[i].endpoint, id |-> oe[i].id]]

\* NodeTable::entries
entries_of(ns, useless, it) == node_entries(ordered_entries(ns, useless, it))

(***************************************************************************)
(* Text: a string is a sequence of characters.  An IP literal is kept as   *)
(* one element; everything the parsers decide on is character by           *)
(* character.                                                              *)
(***************************************************************************)
HexDigits ==
    <<"0", "1", "2", "3", "4", "5", "6", "7", "8", "9", "a", "b", "c", "d", "e", "f">>

UpperHexDigits ==
    <<"0", "1", "2", "3", "4", "5", "6", "7", "8", "9", "A", "B", "C", "D", "E", "F">>

DecDigits == <<"0", "1", "2", "3", "4", "5", "6", "7", "8", "9">>

Ok(v) == [ok |-> TRUE, val |-> v]
Err(e) == [ok |-> FALSE, err |-> e]

\* {:x} of a NodeId: every digit, lower case, zero padded.
RECURSIVE ToHex(_, _)
ToHex(v, len) ==
    IF len = 0 THEN <<>>
    ELSE ToHex(v \div 16, len - 1) \o <<HexDigits[(v % 16) + 1]>>

HexValue(c) ==
    IF \E i \in 1..16 : HexDigits[i] = c
    THEN (CHOOSE i \in 1..16 : HexDigits[i] = c) - 1
    ELSE IF \E i \in 1..16 : UpperHexDigits[i] = c
    THEN (CHOOSE i \in 1..16 : UpperHexDigits[i] = c) - 1
    ELSE -1

RECURSIVE HexNumber(_)
HexNumber(s) ==
    IF s = <<>> THEN 0
    ELSE HexNumber(SubSeq(s, 1, Len(s) - 1)) * 16 + HexValue(s[Len(s)])

\* NodeId::from_str: exactly the id's number of hex digits.
NodeIdFromStr(s) ==
    IF Len(s) = IdHexLen /\ \A i \in 1..Len(s) : HexValue(s[i]) >= 0
    THEN Ok(HexNumber(s))
    ELSE Err("InvalidNodeId")

\* Display of an unsigned integer.
RECURSIVE ToDec(_)
ToDec(v) ==
    IF v < 10 THEN <<DecDigits[v + 1]>>
    ELSE ToDec(v \div 10) \o <<DecDigits[(v % 10) + 1]>>

DecValue(c) ==
    IF \E i \in 1..10 : DecDigits[i] = c
    THEN (CHOOSE i \in 1..10 : DecDigits[i] = c) - 1
    ELSE -1

RECURSIVE DecNumber(_)
DecNumber(s) ==
    IF s = <<>> THEN 0
    ELSE DecNumber(SubSeq(s, 1, Len(s) - 1)) * 10 + DecValue(s[Len(s)])

\* The port of a SocketAddr literal: digits only, within u16.
ParsePort(s) ==
    IF /\ s # <<>>
       /\ \A i \in 1..Len(s) : DecValue(s[i]) >= 0
       /\ DecNumber(s) <= U16Max
    THEN Ok(DecNumber(s))
    ELSE Err("invalid port value")

\* u16::from_str: as ParsePort, and one leading '+' is accepted.
ParseU16(s) ==
    IF s # <<>> /\ Head(s) = "+" THEN ParsePort(Tail(s)) ELSE ParsePort(s)

\* Display of a SocketAddr: <ip>:<port>.
SocketAddrToStr(endpoint) == <<endpoint.ip, ":">> \o ToDec(endpoint.port)

\* SocketAddr::from_str: an IP literal, ':' and a port, nothing else.
SocketAddrFromStr(s) ==
    IF Len(s) >= 3 /\ s[1] \in Ips /\ s[2] = ":" /\ ParsePort(SubSeq(s, 3, Len(s))).ok
    THEN Ok([ip |-> s[1], port |-> ParsePort(SubSeq(s, 3, Len(s))).val])
    ELSE Err("AddrParseError")

\* Position of the last ':' of s, 0 when there is none.
LastColon(s) ==
    IF \E i \in 1..Len(s) : s[i] = ":"
    THEN CHOOSE i \in 1..Len(s) : s[i] = ":" /\ \A j \in (i + 1)..Len(s) : s[j] # ":"
    ELSE 0

\* <str as ToSocketAddrs>::to_socket_addrs, first candidate: the string as a
\* socket address, else host and port split at the last ':' and the host
\* resolved.  The resolver of the model knows IP literals only.
ToSocketAddrs(s) ==
    IF SocketAddrFromStr(s).ok THEN SocketAddrFromStr(s)
    ELSE IF LastColon(s) = 0 THEN Err("invalid socket address")
    ELSE LET host == SubSeq(s, 1, LastColon(s) - 1)
             port == ParseU16(SubSeq(s, LastColon(s) + 1, Len(s)))
         IN  IF ~ port.ok THEN Err("invalid port value")
             ELSE IF Len(host) = 1 /\ host[1] \in Ips
             THEN Ok([ip |-> host[1], port |-> port.val])
             ELSE Err("failed to lookup address information")

\* impl FromStr for NodeEndpoint
NodeEndpointFromStr(s) ==
    LET address == ToSocketAddrs(s)
    IN  IF address.ok
        THEN Ok(NodeEndpoint(address.val.ip, address.val.port, address.val.port))
        ELSE Err("AddressResolve")

Scheme == <<"e", "n", "o", "d", "e", ":", "/", "/">>

\* impl Display for Node
NodeToStr(n) ==
    IF n.endpoint.udp_port # n.endpoint.port
    THEN Scheme \o ToHex(n.id, IdHexLen) \o <<"@">> \o SocketAddrToStr(n.endpoint)
         \o <<"+">> \o ToDec(n.endpoint.udp_port)
    ELSE Scheme \o ToHex(n.id, IdHexLen) \o <<"@">> \o SocketAddrToStr(n.endpoint)

\* impl FromStr for Node.  The id ends at 8 + IdHexLen (136 in the source);
\* a string without the scheme is a bare endpoint with the zero id.
NodeFromStr(s) ==
    LET idEnd == Len(Scheme) + IdHexLen
        withId == /\ Len(s) > idEnd
                  /\ SubSeq(s, 1, Len(Scheme)) = Scheme
                  /\ s[idEnd + 1] = "@"
        id == IF withId THEN NodeIdFromStr(SubSeq(s, Len(Scheme) + 1, idEnd)) ELSE Ok(0)
        endpoint == IF withId THEN NodeEndpointFromStr(SubSeq(s, idEnd + 2, Len(s)))
                    ELSE NodeEndpointFromStr(s)
    IN  IF ~ id.ok THEN Err("InvalidNodeId")
        ELSE IF ~ endpoint.ok THEN endpoint
        ELSE Ok(Node(id.val, endpoint.val, "Optional", 0, 0))

(***************************************************************************)
(* mod json: the records of nodes.json.                                    *)
(***************************************************************************)
\* impl From<&Node> for json::Node
JsonFromNode(n) ==
    [url |-> NodeToStr(n), attempts |-> n.attempts, failures |-> n.failures]

\* into_node without the two assignments of the persisted counters.
into_node_drops_counters(j) == NodeFromStr(j.url)

\* json::Node::into_node
into_node(j) ==
    LET parsed == NodeFromStr(j.url)
    IN  IF parsed.ok
        THEN Ok([parsed.val EXCEPT !.attempts = j.attempts, !.failures = j.failures])
        ELSE Err("None")

\* The content of <dir>/nodes.json: no file, a file File::open cannot open,
\* a file serde_json rejects, or a json::NodeTable.
NoFile == [kind |-> "missing"]
Unreadable == [kind |-> "unreadable"]
InvalidFile == [kind |-> "invalid"]
JsonFile(ns) == [kind |-> "json", nodes |-> ns]

\* Collecting (id, node) pairs into a HashMap: a later pair replaces an
\* earlier one with the same id.
RECURSIVE CollectNodes(_)
CollectNodes(js) ==
    IF js = <<>> THEN <<>>
    ELSE LET rest == CollectNodes(SubSeq(js, 1, Len(js) - 1))
             n == into_node(js[Len(js)])
         IN  IF n.ok
             THEN [k \in DOMAIN rest \cup {n.val.id} |->
                     IF k = n.val.id THEN n.val ELSE rest[k]]
             ELSE rest

(***************************************************************************)
(* NodeTable: the state.                                                   *)
(***************************************************************************)
VARIABLES
    nodes,          \* HashMap<NodeId, Node>: a function from the ids held
    useless_nodes,  \* HashSet<NodeId>
    path,           \* Option<String>: None, or Some of a directory
    alive,          \* the table is constructed and not yet dropped
    disk,           \* the content of <Dir>/nodes.json
    last,           \* the last call made, as the caller observes it
    phase,          \* where a followed restart scenario stands (SpecPersist)
    arg,            \* the arguments of a function applied on its own
    result          \* what that function returned

vars == <<nodes, useless_nodes, path, alive, disk, last, phase, arg, result>>

None == <<>>
Some(x) == <<x>>
Dir == "dir"

\* NodeTable::load
load(p, file) ==
    IF p = None THEN <<>>
    ELSE IF file.kind \in {"missing", "unreadable"} THEN <<>>
    ELSE IF file.kind = "invalid" THEN <<>>
    ELSE CollectNodes(file.nodes)

\* The records of save() without the take(MAX_NODES).
SnapshotOfAll(ns, useless, it) ==
    LET node_ids == nodes_of(ns, useless, DefaultFilter, it)
    IN  [i \in 1..Len(node_ids) |-> JsonFromNode(ns[node_ids[i]])]

\* The records save() collects when the table is iterated in the order it:
\* the first MAX_NODES of nodes(IpFilter::default()), looked up and
\* converted.
SnapshotOf(ns, useless, it) ==
    LET node_ids == nodes_of(ns, useless, DefaultFilter, it)
        taken == SubSeq(node_ids, 1, IF Len(node_ids) < MAX_NODES
                                     THEN Len(node_ids) ELSE MAX_NODES)
    IN  [i \in 1..Len(taken) |-> JsonFromNode(ns[taken[i]])]

\* What the file system can answer to save(): every call succeeds, or
\* create_dir_all fails, or File::create fails, or the write fails after the
\* file was created (and truncated).
IoOutcomes == {"ok", "create_dir_error", "create_error", "write_error"}

\* The file after save() with a configured path.
Written(file, snapshot, io) ==
    CASE io = "ok" -> JsonFile(snapshot)
      [] io = "write_error" -> InvalidFile
      [] OTHER -> file

\* save() without the return on a missing path.
save_ignores_path(p, file, ns, useless, it, io) ==
    Written(file, SnapshotOf(ns, useless, it), io)

\* NodeTable::save, as the file it leaves.
save(p, file, ns, useless, it, io) ==
    IF p = None THEN file
    ELSE Written(file, SnapshotOf(ns, useless, it), io)

(***************************************************************************)
(* NodeTable: the operations.                                              *)
(***************************************************************************)
\* NodeTable::new
New(p) ==
    /\ ~ alive
    /\ nodes' = load(p, disk)
    /\ useless_nodes' = {}
    /\ path' = p
    /\ alive' = TRUE
    /\ UNCHANGED disk

\* add_node storing the record with the counters it came with.
add_node_keeps_passed_counters(ns, node) ==
    [k \in DOMAIN ns \cup {node.id} |-> IF k = node.id THEN node ELSE ns[k]]

\* add_node taking over the stored counters of a record that is there and
\* leaving the passed counters on one that is new.
add_node_new_keeps_passed(ns, node) ==
    IF node.id \in DOMAIN ns
    THEN [ns EXCEPT ![node.id] = [node EXCEPT !.attempts = ns[node.id].attempts,
                                              !.failures = ns[node.id].failures]]
    ELSE [k \in DOMAIN ns \cup {node.id} |-> IF k = node.id THEN node ELSE ns[k]]

\* NodeTable::add_node
add_node(ns, node) ==
    LET attempts == IF node.id \in DOMAIN ns THEN ns[node.id].attempts ELSE 0
        failures == IF node.id \in DOMAIN ns THEN ns[node.id].failures ELSE 0
        stored == [node EXCEPT !.attempts = attempts, !.failures = failures]
    IN  [k \in DOMAIN ns \cup {node.id} |-> IF k = node.id THEN stored ELSE ns[k]]

AddNode(node) ==
    /\ alive
    /\ nodes' = add_node(nodes, node)
    /\ UNCHANGED <<useless_nodes, path, alive, disk>>

\* NodeTable::get_mut followed by the caller's write to attempts.
get_mut_attempts(ns, id, v) ==
    IF id \in DOMAIN ns THEN [ns EXCEPT ![id].attempts = v] ELSE ns

GetMutAttempts(id, v) ==
    /\ alive
    /\ nodes' = get_mut_attempts(nodes, id, v)
    /\ UNCHANGED <<useless_nodes, path, alive, disk>>

\* The loop over update.added inserting a fresh record for every entry.
update_added_resets(ns, added) ==
    [k \in DOMAIN ns \cup DOMAIN added |->
        IF k \in DOMAIN added THEN NodeNew(k, added[k]) ELSE ns[k]]

\* NodeTable::update, the loop over update.added.
update_added(ns, added) ==
    [k \in DOMAIN ns \cup DOMAIN added |->
        IF k \in DOMAIN added
        THEN IF k \in DOMAIN ns
             THEN [ns[k] EXCEPT !.endpoint = added[k]]
             ELSE [NodeNew(k, added[k]) EXCEPT !.endpoint = added[k]]
        ELSE ns[k]]

\* The loop over update.removed without the test on reserved.
update_removed_ignores_reserved(ns, removed, reserved) ==
    [k \in DOMAIN ns \ removed |-> ns[k]]

\* NodeTable::update, the loop over update.removed.
update_removed(ns, removed, reserved) ==
    [k \in DOMAIN ns \ (removed \ reserved) |-> ns[k]]

update(ns, added, removed, reserved) ==
    update_removed(update_added(ns, added), removed, reserved)

\* update taking what it removes out of the useless set as well.
UpdateCleansUseless(added, removed, reserved) ==
    /\ alive
    /\ nodes' = update(nodes, added, removed, reserved)
    /\ useless_nodes' = useless_nodes \ (removed \ reserved)
    /\ UNCHANGED <<path, alive, disk>>

Update(added, removed, reserved) ==
    /\ alive
    /\ nodes' = update(nodes, added, removed, reserved)
    /\ UNCHANGED <<useless_nodes, path, alive, disk>>

\* note_failure counting an attempt as well.
note_failure_counts_attempt(ns, id) ==
    IF id \in DOMAIN ns
    THEN [ns EXCEPT ![id].failures = ns[id].failures + 1,
                    ![id].attempts = ns[id].attempts + 1]
    ELSE ns

\* NodeTable::note_failure
note_failure(ns, id) ==
    IF id \in DOMAIN ns
    THEN [ns EXCEPT ![id].failures = ns[id].failures + 1]
    ELSE ns

\* note_failure(id), called while the failures of id are below bound.
NoteFailureBelow(id, bound) ==
    /\ alive
    /\ id \in DOMAIN nodes => nodes[id].failures < bound
    /\ nodes' = note_failure(nodes, id)
    /\ UNCHANGED <<useless_nodes, path, alive, disk>>

NoteFailure(id) == NoteFailureBelow(id, MaxFailures)

\* NodeTable::mark_as_useless
mark_as_useless(useless, id) == useless \cup {id}

MarkAsUseless(id) ==
    /\ alive
    /\ useless_nodes' = mark_as_useless(useless_nodes, id)
    /\ UNCHANGED <<nodes, path, alive, disk>>

\* NodeTable::clear_useless
clear_useless(useless) == {}

ClearUseless ==
    /\ alive
    /\ useless_nodes' = clear_useless(useless_nodes)
    /\ UNCHANGED <<nodes, path, alive, disk>>

\* NodeTable::save
Save(it, io) ==
    /\ alive
    /\ disk' = save(path, disk, nodes, useless_nodes, it, io)
    /\ UNCHANGED <<nodes, useless_nodes, path, alive>>

\* impl Drop for NodeTable
Drop(it, io) ==
    /\ alive
    /\ disk' = save(path, disk, nodes, useless_nodes, it, io)
    /\ alive' = FALSE
    /\ UNCHANGED <<nodes, useless_nodes, path>>

(***************************************************************************)
(* The callers: what the operations are called with, and the record of the *)
(* last call.                                                              *)
(***************************************************************************)
\* A call on the table: it is recorded, and no function is applied on its
\* own.
Called(call) == last' = call /\ UNCHANGED <<arg, result>>

\* No function has been applied on its own.
Idle == [fn |-> "none"]

\* What save() met in the file system; nothing when no path is configured.
IoSeen(io) == IF path = None THEN "none" ELSE io

\* Counters a record handed to add_node may carry.
PassedCounters == {<<0, 0>>, <<2, 1>>}

PassedNodes ==
    {Node(id, e, t, c[1], c[2]) :
        id \in NodeIds, e \in Endpoints, t \in PeerTypes, c \in PassedCounters}

\* TableUpdates.added: NodeEntry values keyed by their id.
AddedMaps == UNION {[S -> Endpoints] : S \in {{}} \cup {{id} : id \in NodeIds}}

\* The reserved peers of the calls to update.
ReservedSets == {{}, {169}}

\* A snapshot written by an earlier run.
OldSnapshot ==
    JsonFile(<<JsonFromNode(Node(169, NodeEndpoint(PrivateIp, 30303, 30303),
                                 "Optional", 2, 1))>>)

(***************************************************************************)
(* Spec: a table constructed without a storage location, under any         *)
(* sequence of calls.                                                      *)
(***************************************************************************)
Init ==
    /\ disk = OldSnapshot
    /\ path = None
    /\ nodes = load(None, disk)
    /\ useless_nodes = {}
    /\ alive = TRUE
    /\ last = [op |-> "new", path |-> None]
    /\ phase = "first"
    /\ arg = Idle
    /\ result = Idle

Next ==
    \/ \E node \in PassedNodes :
          /\ AddNode(node)
          /\ Called([op |-> "add_node", node |-> node])
          /\ UNCHANGED phase
    \/ \E id \in NodeIds, v \in 0..MaxAttempts :
          /\ GetMutAttempts(id, v)
          /\ Called([op |-> "get_mut", id |-> id, attempts |-> v])
          /\ UNCHANGED phase
    \/ \E added \in AddedMaps, removed \in SUBSET NodeIds, reserved \in ReservedSets :
          /\ Update(added, removed, reserved)
          /\ Called([op |-> "update", added |-> added, removed |-> removed,
                     reserved |-> reserved])
          /\ UNCHANGED phase
    \/ \E id \in NodeIds :
          /\ NoteFailure(id)
          /\ Called([op |-> "note_failure", id |-> id])
          /\ UNCHANGED phase
    \/ \E id \in NodeIds :
          /\ MarkAsUseless(id)
          /\ Called([op |-> "mark_as_useless", id |-> id])
          /\ UNCHANGED phase
    \/ /\ ClearUseless
       /\ Called([op |-> "clear_useless"])
       /\ UNCHANGED phase
    \/ \E it \in IterOrders(DOMAIN nodes), io \in IoOutcomes :
          /\ Save(it, io)
          /\ Called([op |-> "save", io |-> IoSeen(io)])
          /\ UNCHANGED phase
    \/ \E it \in IterOrders(DOMAIN nodes), io \in IoOutcomes :
          /\ Drop(it, io)
          /\ Called([op |-> "drop", io |-> IoSeen(io)])
          /\ UNCHANGED phase
    \/ /\ New(None)
       /\ Called([op |-> "new", path |-> None])
       /\ UNCHANGED phase

Spec == Init /\ [][Next]_vars

(***************************************************************************)
(* SpecPersist: a table with a storage location, followed as the test      *)
(* table_save_load does: constructed, changed by any calls, persisted by   *)
(* save() or by drop, and constructed again from the same location.  Of    *)
(* the calls before the first save it records only that one was made.      *)
(***************************************************************************)
PersistIds == NodeIds \cup {201}

\* Records as Node::from_str and Node::new make them.
PersistNodes == {NodeNew(id, e) : id \in PersistIds, e \in Endpoints}

PersistAdded == UNION {[S -> Endpoints] : S \in {{}} \cup {{id} : id \in PersistIds}}

PersistRemoved == {{}} \cup {{id} : id \in PersistIds}

\* Values the callers of SpecPersist write to attempts.
PersistAttempts == {0, 2}

InitPersist ==
    /\ disk = OldSnapshot
    /\ path = Some(Dir)
    /\ nodes = load(path, disk)
    /\ useless_nodes = {}
    /\ alive = TRUE
    /\ last = [op |-> "new", path |-> Some(Dir)]
    /\ phase = "first"
    /\ arg = Idle
    /\ result = Idle

NextPersist ==
    \/ \E node \in PersistNodes :
          phase = "first" /\ AddNode(node) /\ Called([op |-> "change"]) /\ UNCHANGED phase
    \/ \E id \in PersistIds, v \in PersistAttempts :
          /\ phase = "first"
          /\ GetMutAttempts(id, v)
          /\ Called([op |-> "change"])
          /\ UNCHANGED phase
    \/ \E added \in PersistAdded, removed \in PersistRemoved :
          /\ phase = "first"
          /\ Update(added, removed, {})
          /\ Called([op |-> "change"])
          /\ UNCHANGED phase
    \/ \E id \in PersistIds :
          phase = "first" /\ NoteFailure(id) /\ Called([op |-> "change"]) /\ UNCHANGED phase
    \/ \E id \in PersistIds :
          phase = "first" /\ MarkAsUseless(id) /\ Called([op |-> "change"]) /\ UNCHANGED phase
    \/ phase = "first" /\ ClearUseless /\ Called([op |-> "change"]) /\ UNCHANGED phase
    \/ \E it \in IterOrders(DOMAIN nodes), io \in IoOutcomes :
          /\ phase \in {"first", "saved"}
          /\ Save(it, io)
          /\ Called([op |-> "save", io |-> IoSeen(io)])
          /\ phase' = "saved"
    \/ \E it \in IterOrders(DOMAIN nodes), io \in IoOutcomes :
          /\ phase \in {"first", "saved"}
          /\ Drop(it, io)
          /\ Called([op |-> "drop", io |-> IoSeen(io)])
          /\ phase' = "dropped"
    \/ /\ phase = "dropped"
       /\ New(Some(Dir))
       /\ Called([op |-> "new", path |-> Some(Dir)])
       /\ phase' = "second"
    \/ \E it \in IterOrders(DOMAIN nodes), io \in IoOutcomes :
          /\ phase = "second"
          /\ Save(it, io)
          /\ Called([op |-> "save", io |-> IoSeen(io)])
          /\ UNCHANGED phase
    \/ \E it \in IterOrders(DOMAIN nodes), io \in IoOutcomes :
          /\ phase = "second"
          /\ Drop(it, io)
          /\ Called([op |-> "drop", io |-> IoSeen(io)])
          /\ phase' = "done"

SpecPersist == InitPersist /\ [][NextPersist]_vars

(***************************************************************************)
(* SpecLoad: a table constructed over whatever the storage location holds: *)
(* no file, a file that cannot be opened or parsed, or a snapshot with     *)
(* records of any kind; then dropped and constructed again.                *)
(***************************************************************************)
\* Most records a snapshot of SpecLoad holds.
MaxFileLen == 2

\* An id segment of the right length that is not hexadecimal.
BadIdUrl ==
    Scheme \o [i \in 1..IdHexLen |-> "z"] \o <<"@">>
        \o SocketAddrToStr(NodeEndpoint(PrivateIp, 30303, 30303))

\* The url fields of the records: two well-formed ones, one as Display
\* writes it for a UDP port of its own, one with a bad id, a bare endpoint
\* and one that is no address at all.
LoadUrls ==
    { NodeToStr(NodeNew(169, NodeEndpoint(PrivateIp, 30303, 30303))),
      NodeToStr(NodeNew(185, NodeEndpoint(PublicIp, 30303, 30303))),
      NodeToStr(NodeNew(185, NodeEndpoint(PublicIp, 30303, 30304))),
      BadIdUrl,
      SocketAddrToStr(NodeEndpoint(PrivateIp, 30303, 30303)),
      <<"x">> }

LoadRecords ==
    {[url |-> u, attempts |-> c[1], failures |-> c[2]] :
        u \in LoadUrls, c \in PassedCounters}

LoadFiles ==
    {NoFile, Unreadable, InvalidFile}
        \cup {JsonFile(js) : js \in UNION {[1..k -> LoadRecords] : k \in 0..MaxFileLen}}

InitLoad ==
    /\ disk \in LoadFiles
    /\ path = Some(Dir)
    /\ nodes = load(path, disk)
    /\ useless_nodes = {}
    /\ alive = TRUE
    /\ last = [op |-> "new", path |-> Some(Dir)]
    /\ phase = "first"
    /\ arg = Idle
    /\ result = Idle

NextLoad ==
    \/ \E it \in IterOrders(DOMAIN nodes), io \in IoOutcomes :
          /\ Drop(it, io)
          /\ Called([op |-> "drop", io |-> IoSeen(io)])
          /\ UNCHANGED phase
    \/ /\ New(Some(Dir))
       /\ Called([op |-> "new", path |-> Some(Dir)])
       /\ UNCHANGED phase

SpecLoad == InitLoad /\ [][NextLoad]_vars

(***************************************************************************)
(* SpecCounters: the counters of the records of a memory-only table under  *)
(* add_node, update, note_failure and writes to attempts through get_mut,  *)
(* with note_failure called more often than in Spec.                       *)
(***************************************************************************)
\* Largest value SpecCounters lets failures reach.
MaxNoted == 2

NextCounters ==
    \/ \E node \in PassedNodes :
          /\ AddNode(node)
          /\ Called([op |-> "add_node"])
          /\ UNCHANGED phase
    \/ \E id \in NodeIds, v \in 0..MaxAttempts :
          /\ GetMutAttempts(id, v)
          /\ Called([op |-> "get_mut"])
          /\ UNCHANGED phase
    \/ \E added \in AddedMaps, removed \in SUBSET NodeIds :
          /\ Update(added, removed, {})
          /\ Called([op |-> "update"])
          /\ UNCHANGED phase
    \/ \E id \in NodeIds :
          /\ NoteFailureBelow(id, MaxNoted)
          /\ Called([op |-> "note_failure"])
          /\ UNCHANGED phase

SpecCounters == Init /\ [][NextCounters]_vars

(***************************************************************************)
(* Functions applied on their own.  No table is involved: its variables    *)
(* stay as Detached leaves them.                                           *)
(***************************************************************************)
table == <<nodes, useless_nodes, path, alive, disk, last, phase>>

Detached ==
    /\ nodes = <<>>
    /\ useless_nodes = {}
    /\ path = None
    /\ alive = FALSE
    /\ disk = NoFile
    /\ last = [op |-> "none"]
    /\ phase = "first"

(***************************************************************************)
(* SpecFilter: NodeEndpoint::is_allowed applied to an endpoint and a       *)
(* filter.                                                                 *)
(***************************************************************************)
\* The addresses and networks of the tests custom_allow, custom_block,
\* custom_allow_ipv6 and custom_block_ipv6.
FilterIps == Ips \cup {"1.0.0.55", "fc00::", "fd00::"}

FilterNets == {"10.0.0.0/8", "1.0.0.0/8", "fc00::/8"}

FilterArgs ==
    [fn : {"is_allowed"},
     endpoint : {NodeEndpoint(ip, 7770, 7770) : ip \in FilterIps},
     filter : [predefined : AllowIP, custom_allow : SUBSET FilterNets,
               custom_block : SUBSET FilterNets]]

InitFilter ==
    /\ Detached
    /\ arg \in FilterArgs
    /\ result = Idle

IsAllowed ==
    /\ arg.fn = "is_allowed"
    /\ result = Idle
    /\ result' = [fn |-> "is_allowed", val |-> is_allowed(arg.endpoint, arg.filter)]
    /\ UNCHANGED <<table, arg>>

NextFilter == IsAllowed

SpecFilter == InitFilter /\ [][NextFilter]_vars

(***************************************************************************)
(* SpecPercentage: Node::failure_percentage on counters of the full u32    *)
(* width.  A number is kept as limbs of 16 bits, the most significant      *)
(* first: a u32 as <<hi, lo>>, an intermediate value as <<top, hi, lo>>.   *)
(***************************************************************************)
Limb == 65536

WLess(a, b) ==
    \/ a[1] < b[1]
    \/ a[1] = b[1] /\ a[2] < b[2]
    \/ a[1] = b[1] /\ a[2] = b[2] /\ a[3] < b[3]

\* a - b, for a >= b.
WSub(a, b) ==
    LET l == a[3] - b[3]
        bl == IF l < 0 THEN 1 ELSE 0
        h == a[2] - b[2] - bl
        bh == IF h < 0 THEN 1 ELSE 0
    IN  <<a[1] - b[1] - bh, h + bh * Limb, l + bl * Limb>>

\* 2 * a + bit, the bits above the three limbs dropped.
WShl1(a, bit) ==
    LET l == 2 * a[3] + bit
        h == 2 * a[2] + (l \div Limb)
        t == 2 * a[1] + (h \div Limb)
    IN  <<t % Limb, h % Limb, l % Limb>>

\* Bit i of a, bit 0 the least significant.
WBit(a, i) == (a[3 - (i \div 16)] \div (2 ^ (i % 16))) % 2

\* One step of the long division of n by d: bit i of n is taken into the
\* quotient and remainder qr of the bits above it.
WDivBit(n, d, i, qr) ==
    LET r2 == WShl1(qr[2], WBit(n, i))
        fits == ~ WLess(r2, d)
    IN  <<WShl1(qr[1], IF fits THEN 1 ELSE 0), IF fits THEN WSub(r2, d) ELSE r2>>

\* Long division, bit by bit from bit i down.  (Binding the step's result
\* to s makes it a value that is computed once.)
RECURSIVE WDivStep(_, _, _, _)
WDivStep(n, d, i, qr) ==
    IF i < 0 THEN qr[1]
    ELSE CHOOSE q \in {WDivStep(n, d, i - 1, s) : s \in {WDivBit(n, d, i, qr)}} : TRUE

\* floor(n / d), for d > 0.
WDiv(n, d) ==
    CHOOSE q \in {WDivStep(a[1], a[2], 47, <<(<<0, 0, 0>>), (<<0, 0, 0>>)>>) :
                     a \in {<<n, d>>}} : TRUE

\* a * k for a small factor k, exact while the product is below 2^48.
WMulSmall(a, k) ==
    LET l == a[3] * k
        h == a[2] * k + (l \div Limb)
        t == a[1] * k + (h \div Limb)
    IN  <<t, h % Limb, l % Limb>>

\* A u32 widened.
Wide(x) == <<0, x[1], x[2]>>

Returned(v) == [fn |-> "failure_percentage", outcome |-> "returned", val |-> v]
Panicked == [fn |-> "failure_percentage", outcome |-> "panic"]

\* The profiles a build has: with overflow checks (debug), where an
\* overflowing u32 multiplication panics, and without (release), where it
\* wraps.
Builds == {"debug", "release"}

\* Node::failure_percentage on u32 counters, as the build computes it.
failure_percentage_u32(attempts, failures, build) ==
    IF attempts = <<0, 0>> THEN Returned(<<0, 0, DEFAULT_FAILURE_PERCENTAGE>>)
    ELSE LET product == WMulSmall(Wide(failures), 100)
         IN  IF product[1] # 0 /\ build = "debug" THEN Panicked
             ELSE LET wrapped == <<0, product[2], product[3]>>
                      ratio == WDiv(wrapped, Wide(attempts))
                  IN  Returned(WMulSmall(WDiv(ratio, <<0, 0, 5>>), 5))

\* u32 values the counters are drawn from: small ones, the two around the
\* largest failures whose hundredfold fits in a u32 (42949672), 2^16 and
\* 2^32 - 1.
PercentageAttempts ==
    {<<0, 0>>, <<0, 1>>, <<0, 2>>, <<0, 3>>, <<0, 7>>, <<0, 100>>, <<1, 0>>,
     <<65535, 65535>>}

PercentageFailures ==
    {<<0, 0>>, <<0, 1>>, <<0, 3>>, <<1, 0>>, <<655, 23592>>, <<655, 23593>>,
     <<65535, 65535>>}

InitPercentage ==
    /\ Detached
    /\ arg \in [fn : {"failure_percentage"}, attempts : PercentageAttempts,
                 failures : PercentageFailures, build : Builds]
    /\ result = Idle

FailurePercentage ==
    /\ arg.fn = "failure_percentage"
    /\ result = Idle
    /\ result' = failure_percentage_u32(arg.attempts, arg.failures, arg.build)
    /\ UNCHANGED <<table, arg>>

NextPercentage == FailurePercentage

SpecPercentage == InitPercentage /\ [][NextPercentage]_vars

(***************************************************************************)
(* SpecRlp: NodeEndpoint::to_rlp and NodeEndpoint::from_rlp.  An address   *)
(* is numeric here: four octets, or eight 16-bit segments.  The wire       *)
(* triplet is kept as the payload bytes of its three items.                *)
(***************************************************************************)
Ipv4Addr(a, b, c, d) == [v |-> 4, octets |-> <<a, b, c, d>>]
Ipv6Addr(segments) == [v |-> 6, segments |-> segments]

\* RlpStream::append of a u16: the big-endian bytes without leading zeros.
U16ToRlp(x) ==
    IF x = 0 THEN <<>>
    ELSE IF x < 256 THEN <<x>>
    ELSE <<x \div 256, x % 256>>

\* UntrustedRlp::val_at::<u16>: the inverse, which rejects a leading zero and
\* more than two bytes.
RlpToU16(bytes) ==
    IF Len(bytes) > 2 THEN Err("RlpIsTooBig")
    ELSE IF bytes # <<>> /\ bytes[1] = 0 THEN Err("RlpInvalidIndirection")
    ELSE IF bytes = <<>> THEN Ok(0)
    ELSE IF Len(bytes) = 1 THEN Ok(bytes[1])
    ELSE Ok(bytes[1] * 256 + bytes[2])

\* The byte order of the host the build runs on.
Hosts == {"little", "big"}

\* The 16 bytes of a [u16; 8] in the memory of the host.
SegmentBytes(segments, host) ==
    [i \in 1..16 |->
        LET g == segments[(i + 1) \div 2]
            first == (i % 2) = 1
        IN  IF (host = "big") = first THEN g \div 256 ELSE g % 256]

\* The [u16; 8] that 16 bytes are in the memory of the host.
BytesAsSegments(bytes, host) ==
    [i \in 1..8 |->
        IF host = "big" THEN bytes[2 * i - 1] * 256 + bytes[2 * i]
        ELSE bytes[2 * i] * 256 + bytes[2 * i - 1]]

\* to_rlp takes the pointer of the array segments() returns, a temporary
\* that is gone when the 16 bytes are read through the pointer.  What the
\* read finds: the segments still, or whatever has taken their place.
StaleBytes == {[i \in 1..16 |-> 0], [i \in 1..16 |-> 170]}

Seen == {[kind |-> "segments"]} \cup {[kind |-> "stale", bytes |-> b] : b \in StaleBytes}

\* NodeEndpoint::to_rlp: the three items appended.
to_rlp(endpoint, host, seen) ==
    [ip_bytes |-> IF endpoint.ip.v = 4 THEN endpoint.ip.octets
                  ELSE IF seen.kind = "segments"
                  THEN SegmentBytes(endpoint.ip.segments, host)
                  ELSE seen.bytes,
     udp |-> U16ToRlp(endpoint.udp_port),
     tcp |-> U16ToRlp(endpoint.port)]

\* from_rlp reads the 16 bytes as a [u16; 8] through a pointer of no known
\* alignment: the read gives the bytes, or the access faults.
Reads == {"read", "fault"}

\* NodeEndpoint::from_rlp
from_rlp(wire, host, read) ==
    LET tcp_port == RlpToU16(wire.tcp)
        udp_port == RlpToU16(wire.udp)
        addr_bytes == wire.ip_bytes
    IN  IF ~ tcp_port.ok THEN tcp_port
        ELSE IF ~ udp_port.ok THEN udp_port
        ELSE IF Len(addr_bytes) = 4
        THEN Ok(NodeEndpoint(Ipv4Addr(addr_bytes[1], addr_bytes[2], addr_bytes[3],
                                      addr_bytes[4]),
                             tcp_port.val, udp_port.val))
        ELSE IF Len(addr_bytes) = 16
        THEN IF read = "fault" THEN [ok |-> FALSE, err |-> "fault"]
             ELSE Ok(NodeEndpoint(Ipv6Addr(BytesAsSegments(addr_bytes, host)),
                                  tcp_port.val, udp_port.val))
        ELSE Err("RlpInconsistentLengthAndData")

\* Addresses: those of the tests, one whose segments have two different
\* bytes each, and the IPv6 loopback.
RlpIps ==
    { Ipv4Addr(10, 0, 0, 1),
      Ipv4Addr(123, 99, 55, 44),
      Ipv6Addr(<<64512, 0, 0, 0, 0, 0, 0, 0>>),
      Ipv6Addr(<<258, 772, 1286, 1800, 2314, 2828, 3342, 3856>>),
      Ipv6Addr(<<0, 0, 0, 0, 0, 0, 0, 1>>) }

\* TCP and UDP port.
RlpPorts == {<<30303, 30304>>, <<80, 0>>, <<255, 256>>}

RlpEndpoints == {NodeEndpoint(ip, p[1], p[2]) : ip \in RlpIps, p \in RlpPorts}

\* Triplets from the wire that no to_rlp made: an address of three bytes,
\* a port with a leading zero, a port of three bytes.
RlpWires ==
    { [ip_bytes |-> <<10, 0, 1>>, udp |-> <<118, 95>>, tcp |-> <<118, 95>>],
      [ip_bytes |-> <<10, 0, 0, 1>>, udp |-> <<0, 80>>, tcp |-> <<118, 95>>],
      [ip_bytes |-> <<10, 0, 0, 1>>, udp |-> <<80>>, tcp |-> <<1, 0, 0>>] }

InitRlp ==
    /\ Detached
    /\ arg \in [fn : {"to_rlp"}, endpoint : RlpEndpoints, host : Hosts]
                \cup [fn : {"from_rlp"}, wire : RlpWires, host : Hosts]
    /\ result = Idle

ToRlp ==
    /\ arg.fn = "to_rlp"
    /\ result = Idle
    /\ \E seen \in Seen :
          result' = [fn |-> "to_rlp", wire |-> to_rlp(arg.endpoint, arg.host, seen)]
    /\ UNCHANGED <<table, arg>>

\* from_rlp of what to_rlp has made.
FromRlp ==
    /\ result.fn = "to_rlp"
    /\ \E read \in Reads :
          result' = [fn |-> "from_rlp", wire |-> result.wire,
                     decoded |-> from_rlp(result.wire, arg.host, read)]
    /\ UNCHANGED <<table, arg>>

\* from_rlp of a triplet from the wire.
FromRlpWire ==
    /\ arg.fn = "from_rlp"
    /\ result = Idle
    /\ \E read \in Reads :
          result' = [fn |-> "from_rlp", wire |-> arg.wire,
                     decoded |-> from_rlp(arg.wire, arg.host, read)]
    /\ UNCHANGED <<table, arg>>

NextRlp == ToRlp \/ FromRlp \/ FromRlpWire

SpecRlp == InitRlp /\ [][NextRlp]_vars

(***************************************************************************)
(* Properties.                                                             *)
(***************************************************************************)
Elements(s) == {s[i] : i \in 1..Len(s)}

\* The ranking key: a may stand right before b.
RankedBefore(a, b) ==
    \/ failure_percentage(a) < failure_percentage(b)
    \/ /\ failure_percentage(a) = failure_percentage(b)
       /\ a.failures < b.failures
    \/ /\ failure_percentage(a) = failure_percentage(b)
       /\ a.failures = b.failures
       /\ a.attempts >= b.attempts

\* C1: in every reachable table state, for every IP filter and every
\* iteration order of the map, the list nodes(filter) returns and the list
\* entries() returns are sorted by the ranking key: of two consecutive
\* results a then b, a has the lower failure percentage, or the same
\* percentage and fewer failures, or the same percentage and failures and
\* at least as many attempts.
C1_RankedOutputSorted ==
    \A it \in IterOrders(DOMAIN nodes) :
        LET oe == ordered_entries(nodes, useless_nodes, it)
            e == node_entries(oe)
        IN  /\ \A filter \in IpFilters :
                  LET r == allowed_ids(oe, filter)
                  IN  \A i \in 1..(Len(r) - 1) :
                          RankedBefore(nodes[r[i]], nodes[r[i + 1]])
            /\ \A i \in 1..(Len(e) - 1) :
                  RankedBefore(nodes[e[i].id], nodes[e[i + 1].id])

\* C1 witness: two ranked records with the same failure percentage and the
\* same failures and different attempts, so the last key decides.
C1_Witness ==
    /\ alive
    /\ \E a, b \in DOMAIN nodes \ useless_nodes :
          /\ a # b
          /\ failure_percentage(nodes[a]) = failure_percentage(nodes[b])
          /\ nodes[a].failures = nodes[b].failures
          /\ nodes[a].attempts > nodes[b].attempts
          /\ nodes_of(nodes, useless_nodes, DefaultFilter, <<b, a>>) = <<a, b>>

\* What nodes(filter) can return, as a set of ids.
RankedIds(ns, useless, filter) ==
    UNION {Elements(nodes_of(ns, useless, filter, it)) : it \in IterOrders(DOMAIN ns)}

\* No id of the useless set is in a result of entries() or of nodes(filter).
UselessExcluded ==
    \A it \in IterOrders(DOMAIN nodes) :
        LET oe == ordered_entries(nodes, useless_nodes, it)
        IN  /\ \A e \in Elements(node_entries(oe)) : e.id \notin useless_nodes
            /\ \A filter \in IpFilters :
                  Elements(allowed_ids(oe, filter)) \cap useless_nodes = {}

\* Every record is in entries() and in nodes(filter) for every filter that
\* allows its endpoint.
AllRanked ==
    \A it \in IterOrders(DOMAIN nodes) :
        LET oe == ordered_entries(nodes, useless_nodes, it)
        IN  \A id \in DOMAIN nodes :
                /\ \E e \in Elements(node_entries(oe)) : e.id = id
                /\ \A filter \in IpFilters :
                      is_allowed(nodes[id].endpoint, filter) =>
                          id \in Elements(allowed_ids(oe, filter))

C2_Step ==
    /\ last'.op \notin {"clear_useless", "new"} => useless_nodes \subseteq useless_nodes'
    /\ last'.op = "mark_as_useless" =>
          /\ last'.id \in useless_nodes'
          /\ nodes' = nodes
    /\ (last'.op = "note_failure" /\ last'.id \in useless_nodes \cap DOMAIN nodes) =>
          /\ last'.id \in DOMAIN nodes'
          /\ nodes'[last'.id].failures = nodes[last'.id].failures + 1
    /\ (last'.op = "get_mut" /\ last'.id \in useless_nodes \cap DOMAIN nodes) =>
          /\ last'.id \in DOMAIN nodes'
          /\ nodes'[last'.id].attempts = last'.attempts

\* C2: an id marked useless is in no result of nodes(filter) or entries(),
\* for any filter, and stays marked through every call but clear_useless
\* (and the construction of a new table); mark_as_useless leaves the record
\* map as it is; note_failure and a write through get_mut still change a
\* marked record; after clear_useless every record is in entries() and in
\* nodes(filter) for every filter that allows its endpoint.
C2_UselessExcludedUntilCleared ==
    /\ [](UselessExcluded /\ (last.op = "clear_useless" => AllRanked))
    /\ [][C2_Step]_vars

\* C2 witness: note_failure has just counted a failure on a record that is
\* marked useless and is left out of the ranked output.
C2_Witness ==
    /\ alive
    /\ last.op = "note_failure"
    /\ last.id \in useless_nodes \cap DOMAIN nodes
    /\ nodes[last.id].failures = 1
    /\ last.id \notin RankedIds(nodes, useless_nodes, DefaultFilter)
    /\ RankedIds(nodes, useless_nodes, DefaultFilter) # {}

\* The fields of the table other than the record map.
rest == <<useless_nodes, path, alive, disk>>

C3_Step ==
    (last'.op = "add_node" /\ last'.node.id \in DOMAIN nodes) =>
        LET id == last'.node.id
        IN  /\ DOMAIN nodes' = DOMAIN nodes
            /\ nodes'[id].id = id
            /\ nodes'[id].attempts = nodes[id].attempts
            /\ nodes'[id].failures = nodes[id].failures
            /\ nodes'[id].endpoint = last'.node.endpoint
            /\ nodes'[id].peer_type = last'.node.peer_type
            /\ \A k \in DOMAIN nodes \ {id} : nodes'[k] = nodes[k]

\* C3: add_node(record) for an id already in the table keeps the stored
\* attempts and failures of that id, whatever counters the passed record
\* carries; the endpoint and the peer_type become those of the passed
\* record; the table holds the same ids as before, one record each, and
\* every other record is unchanged.
C3_AddNodeKeepsCounters == [][C3_Step]_vars

\* C3 witness: add_node has replaced a record whose stored counters differ
\* from those of the passed record, beside another record.
C3_Witness ==
    /\ last.op = "add_node"
    /\ last.node.id \in DOMAIN nodes
    /\ nodes[last.node.id].attempts = 1
    /\ nodes[last.node.id].failures = 1
    /\ last.node.attempts = 2
    /\ last.node.peer_type = "Required"
    /\ nodes[last.node.id].peer_type = "Required"
    /\ DOMAIN nodes # {last.node.id}

\* The removal of update leaves what is reserved and deletes the rest.
C4_Removed(exempt) ==
    last'.op = "update" =>
        /\ \A id \in (last'.removed \cap last'.reserved) \ exempt :
              id \in DOMAIN nodes => (id \in DOMAIN nodes' /\ nodes'[id] = nodes[id])
        /\ \A id \in last'.removed \ last'.reserved : id \notin DOMAIN nodes'
        /\ \A id \in NodeIds \ (DOMAIN last'.added \cup last'.removed) :
              /\ id \in DOMAIN nodes' <=> id \in DOMAIN nodes
              /\ id \in DOMAIN nodes => nodes'[id] = nodes[id]

\* C4 as claimed: after update(added, removed, reserved) every id of removed
\* that is in reserved has its record in the table unchanged, every id of
\* removed that is not in reserved has no record, and a record whose id is
\* in neither added nor removed is unchanged.
C4_Original == [][C4_Removed({})]_vars

\* C4, amended: after update(added, removed, reserved) every id of removed
\* that is in reserved and not in added has its record in the table
\* unchanged (one that is also in added is kept with the added endpoint),
\* every id of removed that is not in reserved has no record, and a record
\* whose id is in neither added nor removed is unchanged.
C4_UpdateRemoval == [][C4_Removed(DOMAIN last'.added)]_vars

\* C4 witness: one update has left a reserved record and removed another
\* one.
C4_Witness ==
    /\ last.op = "update"
    /\ DOMAIN last.added = {}
    /\ last.removed = NodeIds
    /\ last.reserved # {}
    /\ DOMAIN nodes = last.reserved
    /\ \E id \in DOMAIN nodes : nodes[id].failures = 1

C5_Step ==
    last'.op = "update" =>
        \A id \in DOMAIN last'.added \ last'.removed :
            /\ id \in DOMAIN nodes'
            /\ nodes'[id].endpoint = last'.added[id]
            /\ nodes'[id].id = id
            /\ id \notin DOMAIN nodes =>
                  /\ nodes'[id].attempts = 0
                  /\ nodes'[id].failures = 0
                  /\ nodes'[id].peer_type = "Optional"
            /\ id \in DOMAIN nodes =>
                  /\ nodes'[id].attempts = nodes[id].attempts
                  /\ nodes'[id].failures = nodes[id].failures
                  /\ nodes'[id].peer_type = nodes[id].peer_type

\* C5: after update(added, removed, reserved) every added (id, endpoint)
\* whose id is not in removed has a record with that endpoint: a new one
\* with attempts 0 and failures 0 when the id was absent, and the previous
\* one with its attempts, failures and peer_type when the id was present.
C5_UpdateUpsert == [][C5_Step]_vars

\* C5 witness: update has given a new endpoint to a record that was there
\* before (it has counters and a peer_type update never sets).
C5_Witness ==
    /\ last.op = "update"
    /\ \E id \in DOMAIN last.added \ last.removed :
          /\ id \in DOMAIN nodes
          /\ nodes[id].endpoint = last.added[id]
          /\ nodes[id].peer_type = "Required"
          /\ nodes[id].attempts = 2
          /\ nodes[id].failures = 1

C6_Step ==
    last'.op = "note_failure" =>
        /\ rest' = rest
        /\ alive'
        /\ IF last'.id \in DOMAIN nodes
           THEN /\ DOMAIN nodes' = DOMAIN nodes
                /\ nodes'[last'.id].failures = nodes[last'.id].failures + 1
                /\ nodes'[last'.id].attempts = nodes[last'.id].attempts
                /\ nodes'[last'.id].endpoint = nodes[last'.id].endpoint
                /\ nodes'[last'.id].peer_type = nodes[last'.id].peer_type
                /\ \A k \in DOMAIN nodes \ {last'.id} : nodes'[k] = nodes[k]
           ELSE nodes' = nodes

\* C6: note_failure(id) on an id in the table adds exactly 1 to the failures
\* of that record and leaves its attempts, its endpoint, every other record
\* and the useless set as they are; on an id not in the table it leaves the
\* whole table state as it is, and the table stays usable.
C6_NoteFailure == [][C6_Step]_vars

\* C6 witness: note_failure was called with an id that is not in the table,
\* which holds another record.
C6_Witness ==
    /\ alive
    /\ last.op = "note_failure"
    /\ last.id \notin DOMAIN nodes
    /\ DOMAIN nodes # {}
    /\ \E id \in DOMAIN nodes : nodes[id].failures = 1

\* The lists nodes(IpFilter::default()) can return.
RankedLists(ns, useless) ==
    {nodes_of(ns, useless, DefaultFilter, it) : it \in IterOrders(DOMAIN ns)}

\* The last call was a save(), explicit or by drop, that wrote the file.
JustSaved == last.op \in {"save", "drop"} /\ last.io = "ok"

C7_Step ==
    (/\ last'.op = "new"
     /\ last.op = "drop" /\ last.io = "ok"
     /\ DOMAIN nodes \ useless_nodes # {}
     /\ Cardinality(DOMAIN nodes \ useless_nodes) <= MAX_NODES) =>
        RankedLists(nodes', useless_nodes') = RankedLists(nodes, useless_nodes)

\* C7: a table with a storage location that holds peers (no more of them
\* than save() writes) is dropped, its implicit save succeeds, and a fresh
\* table is constructed from the same location: the ranked id order
\* nodes(default filter) of the fresh table is that of the original table
\* before it was persisted (each order the one can return, the other can).
\* The unprimed table of the step is the one that was dropped.
C7_SaveReloadSameOrder == [][C7_Step]_vars

\* C8: when a save() with a configured location has written the file and
\* the table holds at most MAX_NODES records, every record of the table, a
\* useless one too, is in the written snapshot with its attempts and
\* failures.
C8_SnapshotHoldsEveryRecord ==
    (JustSaved /\ path # None /\ Cardinality(DOMAIN nodes) <= MAX_NODES) =>
        /\ disk.kind = "json"
        /\ \A id \in DOMAIN nodes :
              \E i \in 1..Len(disk.nodes) : disk.nodes[i] = JsonFromNode(nodes[id])

\* a ranks strictly better than b.
StrictlyBetter(a, b) == RankedBefore(a, b) /\ ~ RankedBefore(b, a)

Min(x, y) == IF x < y THEN x ELSE y

\* C9: the snapshot a save() has written holds at most MAX_NODES records;
\* they are records of the ranked list under the default filter (the
\* records not marked useless), each once, min(n, MAX_NODES) of its n; they
\* are written in ranked order; and no record of the ranked list that is
\* left out ranks strictly better than one that is in the snapshot.
C9_SnapshotIsTopOfRanking ==
    (JustSaved /\ path # None) =>
        LET ranked == DOMAIN nodes \ useless_nodes
            written == {id \in ranked :
                          \E i \in 1..Len(disk.nodes) :
                              disk.nodes[i] = JsonFromNode(nodes[id])}
        IN  /\ disk.kind = "json"
            /\ Len(disk.nodes) <= MAX_NODES
            /\ Len(disk.nodes) = Min(Cardinality(ranked), MAX_NODES)
            /\ Cardinality(written) = Len(disk.nodes)
            /\ \A i \in 1..Len(disk.nodes) :
                  \E id \in ranked : disk.nodes[i] = JsonFromNode(nodes[id])
            /\ \A i \in 1..(Len(disk.nodes) - 1) :
                  RankedBefore(disk.nodes[i], disk.nodes[i + 1])
            /\ \A out \in ranked \ written, in \in written :
                  ~ StrictlyBetter(nodes[out], nodes[in])

\* C9 witness: a save() has written two of three ranked records, the first
\* strictly better than the second, and left out one that ranks strictly
\* worse than both.
C9_Witness ==
    /\ JustSaved
    /\ path # None
    /\ useless_nodes = {}
    /\ Cardinality(DOMAIN nodes) = 3
    /\ Len(disk.nodes) = MAX_NODES
    /\ StrictlyBetter(disk.nodes[1], disk.nodes[2])
    /\ \E id \in DOMAIN nodes :
          StrictlyBetter(disk.nodes[2], nodes[id])

\* C10: a table constructed without a storage location starts empty, though
\* a snapshot is on the disk, and through every call, save() and drop
\* included, the disk keeps the content it had at the start.
C10_NoPathNoStorage ==
    path = None =>
        /\ disk = OldSnapshot
        /\ last.op = "new" => nodes = <<>>

\* C10 witness: save() was called on a table without a location that holds
\* records, and the disk still holds the old snapshot.
C10_Witness ==
    /\ path = None
    /\ alive
    /\ last.op = "save"
    /\ DOMAIN nodes = NodeIds
    /\ disk = OldSnapshot

\* What construction made of the file: nothing of a file that is missing,
\* unreadable or invalid; of a snapshot, every record with a parsable url
\* (but, when lastOfId, those followed by a parsable record of the same id)
\* with its persisted attempts and failures, and nothing else.
C11_Loaded(lastOfId) ==
    (last.op = "new" /\ path # None) =>
        /\ disk.kind \in {"missing", "unreadable", "invalid"} => nodes = <<>>
        /\ disk.kind = "json" =>
              LET n == Len(disk.nodes)
                  parsed(i) == NodeFromStr(disk.nodes[i].url)
                  Followed(i) ==
                      \E j \in (i + 1)..n :
                          parsed(j).ok /\ parsed(j).val.id = parsed(i).val.id
              IN  /\ \A i \in 1..n :
                        (parsed(i).ok /\ ~ (lastOfId /\ Followed(i))) =>
                            /\ parsed(i).val.id \in DOMAIN nodes
                            /\ nodes[parsed(i).val.id].endpoint = parsed(i).val.endpoint
                            /\ nodes[parsed(i).val.id].attempts = disk.nodes[i].attempts
                            /\ nodes[parsed(i).val.id].failures = disk.nodes[i].failures
                  /\ \A id \in DOMAIN nodes :
                        \E i \in 1..n : parsed(i).ok /\ parsed(i).val.id = id

C12_IsAllowedFormula ==
    result.fn = "is_allowed" =>
        LET ip == arg.endpoint.ip
            policy == arg.filter.predefined
            predefined_allows ==
                \/ policy = "All"
                \/ policy = "Private" /\ IsUsablePrivate(ip)
                \/ policy = "Public" /\ IsUsablePublic(ip)
            custom_allowed == \E net \in arg.filter.custom_allow : IsWithin(ip, net)
            blocked == \E net \in arg.filter.custom_block : IsWithin(ip, net)
        IN  /\ result.val = ((predefined_allows \/ custom_allowed) /\ ~ blocked)
            /\ blocked => result.val = FALSE
            /\ (policy = "None" /\ ~ custom_allowed) => result.val = FALSE
            /\ (policy = "All" /\ ~ blocked) => result.val = TRUE

\* C12 witness: an address that the policy All allows and that is within a
\* custom_allow network and within a custom_block network was rejected.
C12_Witness ==
    /\ result.fn = "is_allowed"
    /\ arg.filter.predefined = "All"
    /\ \E net \in arg.filter.custom_allow : IsWithin(arg.endpoint.ip, net)
    /\ \E net \in arg.filter.custom_block : IsWithin(arg.endpoint.ip, net)
    /\ result.val = FALSE

\* C13: in every table state reached through add_node, update, note_failure
\* and writes to attempts through get_mut, the failure percentage of every
\* record is a multiple of 5 between 0 and 100.
C13_PercentageInRange ==
    \A id \in DOMAIN nodes :
        /\ failure_percentage(nodes[id]) % 5 = 0
        /\ failure_percentage(nodes[id]) >= 0
        /\ failure_percentage(nodes[id]) <= 100

\* C14: for all u32 attempts and failures, failure_percentage returns 50
\* when attempts is 0, whatever failures is, and otherwise returns
\* floor(floor(failures * 100 / attempts) / 5) * 5 as computed on the
\* integers: the product failures * 100 neither overflows nor wraps.
C14_NoOverflow ==
    result.fn = "failure_percentage" =>
        IF arg.attempts = <<0, 0>>
        THEN result = Returned(<<0, 0, 50>>)
        ELSE LET product == WMulSmall(Wide(arg.failures), 100)
                 ratio == WDiv(product, Wide(arg.attempts))
             IN  result = Returned(WMulSmall(WDiv(ratio, <<0, 0, 5>>), 5))

\* C15: for every endpoint with an IPv4 or IPv6 address, from_rlp of the
\* triplet to_rlp made returns an endpoint with the same IP address, the
\* same TCP port and the same UDP port.
C15_RlpRoundTrip ==
    (arg.fn = "to_rlp" /\ result.fn = "from_rlp") =>
        /\ result.decoded.ok
        /\ result.decoded.val.ip = arg.endpoint.ip
        /\ result.decoded.val.port = arg.endpoint.port
        /\ result.decoded.val.udp_port = arg.endpoint.udp_port

\* C16: whatever the byte order of the host, to_rlp emits for each of the 8
\* segments of an IPv6 address its high byte and then its low byte, and
\* from_rlp makes segment i of the bytes 2i and 2i+1 (counted from 0) as
\* bytes[2i] * 256 + bytes[2i+1].
C16_Ipv6NetworkByteOrder ==
    /\ (arg.fn = "to_rlp" /\ arg.endpoint.ip.v = 6 /\ result.fn = "to_rlp") =>
          \A i \in 1..8 :
              /\ result.wire.ip_bytes[2 * i - 1] = arg.endpoint.ip.segments[i] \div 256
              /\ result.wire.ip_bytes[2 * i] = arg.endpoint.ip.segments[i] % 256
    /\ (result.fn = "from_rlp" /\ Len(result.wire.ip_bytes) = 16) =>
          /\ result.decoded.ok
          /\ \A i \in 1..8 :
                result.decoded.val.ip.segments[i] =
                    result.wire.ip_bytes[2 * i - 1] * 256 + result.wire.ip_bytes[2 * i]

\* C17: every record that a save() has written is restored by load with the
\* same id, the same IP and TCP port, the same udp_port and the same
\* attempts and failures, also when its udp_port differs from its TCP port.
C17_CodecRoundTrip ==
    (JustSaved /\ path # None) =>
        LET loaded == load(path, disk)
        IN  \A id \in DOMAIN nodes :
                (\E i \in 1..Len(disk.nodes) : disk.nodes[i] = JsonFromNode(nodes[id])) =>
                    /\ id \in DOMAIN loaded
                    /\ loaded[id].id = id
                    /\ loaded[id].endpoint.ip = nodes[id].endpoint.ip
                    /\ loaded[id].endpoint.port = nodes[id].endpoint.port
                    /\ loaded[id].endpoint.udp_port = nodes[id].endpoint.udp_port
                    /\ loaded[id].attempts = nodes[id].attempts
                    /\ loaded[id].failures = nodes[id].failures

\* No id of the useless set is in a result of nodes(filter) or entries().
C18_Excluded ==
    \A id \in useless_nodes :
        \A it \in IterOrders(DOMAIN nodes) :
            LET oe == ordered_entries(nodes, useless_nodes, it)
            IN  /\ \A e \in Elements(node_entries(oe)) : e.id # id
                /\ \A filter \in IpFilters : id \notin Elements(allowed_ids(oe, filter))

C18_Step ==
    /\ last'.op = "mark_as_useless" =>
          useless_nodes' = useless_nodes \cup {last'.id}
    /\ last'.op \in {"update", "add_node"} => useless_nodes' = useless_nodes

\* C18: mark_as_useless puts the id into the useless set whether or not the
\* table holds it; neither update (its removal included) nor add_node
\* changes the useless set; so an id that was marked, removed and added
\* again is in the useless set still, and every id of the useless set is
\* left out of nodes(filter) and entries() until clear_useless.
C18_UselessSetNotTiedToRecords == []C18_Excluded /\ [][C18_Step]_vars

\* C18 witness: add_node has added a fresh record for an id that is in the
\* useless set, beside a useless id the table does not hold, and the record
\* is left out of nodes().
C18_Witness ==
    /\ last.op = "add_node"
    /\ last.node.id \in useless_nodes \cap DOMAIN nodes
    /\ nodes[last.node.id].attempts = 0
    /\ useless_nodes \ DOMAIN nodes # {}
    /\ last.node.id \notin RankedIds(nodes, useless_nodes, DefaultFilter)

\* The attempts and failures id has in the record map ns, 0 and 0 when it
\* has no record.
CountersOf(ns, id) ==
    IF id \in DOMAIN ns THEN <<ns[id].attempts, ns[id].failures>> ELSE <<0, 0>>

C19_Step ==
    /\ (last'.op = "add_node" /\ last'.node.id \notin DOMAIN nodes) =>
          /\ DOMAIN nodes' = DOMAIN nodes \cup {last'.node.id}
          /\ nodes'[last'.node.id] = [last'.node EXCEPT !.attempts = 0, !.failures = 0]
          /\ \A k \in DOMAIN nodes : nodes'[k] = nodes[k]
    /\ \A id \in DOMAIN nodes' :
          CountersOf(nodes', id) # CountersOf(nodes, id) =>
              last'.op \in {"new", "note_failure", "get_mut"}

\* C19: add_node(record) for an id the table does not hold stores the record
\* with attempts 0 and failures 0, whatever counters the passed record has;
\* and the counters of a record differ from what the id had before (0 and 0
\* for an id without a record) only after a construction (load),
\* note_failure or a write through get_mut.
C19_AddNodeNewZeroCounters == [][C19_Step]_vars

\* C19 witness: add_node was given a record with counters 2 and 1 and a
\* peer_type of its own, and the table holds it with counters 0 and 0.
C19_Witness ==
    /\ last.op = "add_node"
    /\ last.node.attempts = 2
    /\ last.node.failures = 1
    /\ last.node.peer_type = "Required"
    /\ last.node.id \in DOMAIN nodes
    /\ nodes[last.node.id] = [last.node EXCEPT !.attempts = 0, !.failures = 0]
    /\ DOMAIN nodes = {last.node.id}

\* C20: in every reachable table state, for every filter and iteration
\* order, nodes(filter) returns each id of a record that is not in the
\* useless set and whose endpoint the filter allows once, and no other id;
\* every id it returns is a key of the record map under which the record
\* with that id is stored, so the lookup of save() finds it.
C20_NodesReturnsExactlyAllowed ==
    /\ \A k \in DOMAIN nodes : nodes[k].id = k
    /\ \A it \in IterOrders(DOMAIN nodes) :
          LET oe == ordered_entries(nodes, useless_nodes, it)
          IN  \A filter \in IpFilters :
                  LET r == allowed_ids(oe, filter)
                  IN  /\ \A i, j \in 1..Len(r) : r[i] = r[j] => i = j
                      /\ Elements(r) =
                            {id \in DOMAIN nodes \ useless_nodes :
                                is_allowed(nodes[id].endpoint, filter)}
                      /\ Elements(r) \subseteq DOMAIN nodes

\* C20 witness: save() was called on a table of two records, one in the
\* useless set and the other with a public address: nodes() returns the
\* other alone under the default filter and nothing under a filter that
\* allows private addresses only.
C20_Witness ==
    /\ alive
    /\ last.op = "save"
    /\ DOMAIN nodes = NodeIds
    /\ useless_nodes = {185}
    /\ nodes[169].endpoint.ip = PublicIp
    /\ nodes_of(nodes, useless_nodes, DefaultFilter, <<185, 169>>) = <<169>>
    /\ nodes_of(nodes, useless_nodes,
                [predefined |-> "Private", custom_allow |-> {}, custom_block |-> {}],
                <<185, 169>>) = <<>>

====
